---- MODULE Spec2Model ----
(***************************************************************************)
(* Hough voting layer of FastPoseCNN (lib/hough_voting.py).                *)
(*                                                                         *)
(* One call of HoughVotingLayer.batchwise_hough_voting is a run of the     *)
(* state machine: generate hypotheses, prune outliers, weight, average,    *)
(* assemble the (N, 2) output.                                             *)
(*                                                                         *)
(* Numbers.  Real arithmetic is modelled exactly (no rounding).  Pixel     *)
(* coordinates are integers; a hypothesis coordinate is kept as an integer *)
(* number of 1/CoordScale pixels; a weight and an output coordinate are    *)
(* fractions num/den.  A float vector is a record [nan, v]: nan = TRUE is   *)
(* the value NaN (v is then <<0, 0>>).  Component j of a Python 2-vector   *)
(* is position j + 1 of the TLA+ tuple.  Instance ids are 0-based as in    *)
(* the source; Python list position k is TLA+ sequence position k + 1.     *)
(***************************************************************************)
EXTENDS Integers, Sequences, FiniteSets, TLC

\* ----------------------------------------------------------------- bounds
\* largest batch size uv_img.shape[0] explored
MaxN == 2
\* HPARAM.HV_NUM_OF_HYPOTHESES as explored (51 in config.py)
HV_NUM_OF_HYPOTHESES == 2
\* image height and width (mask.shape[1], mask.shape[2])
GridH == 2
GridW == 2

\* -------------------------------------------------------- program constants
HV_HYPOTHESIS_IN_MASK_MULTIPLIER == 3
PRUN_ZSCORE_THRESHOLD == 1
\* IQR_MULTIPLIER = 1.5 = IQR_MULTIPLIER_NUM / IQR_MULTIPLIER_DEN
IQR_MULTIPLIER_NUM == 3
IQR_MULTIPLIER_DEN == 2

\* hypothesis coordinates are integers in units of 1/CoordScale pixel: the
\* exact solutions for axis-aligned unit directions are half-integers, and the
\* mean of HV_NUM_OF_HYPOTHESES of them has denominator 2 * HV_NUM_OF_HYPOTHESES
CoordScale == 2 * HV_NUM_OF_HYPOTHESES

VARIABLES
    uv_img,             \* input: instance id -> (pixel -> float 2-vector)
    mask,               \* input: instance id -> set of true pixels
    HPARAM,             \* configuration record, read-only
    rng,                \* state of torch's default random generator
    pc,                 \* position of the call
    valid_samples,      \* sequence of ids of the instances with >= 2 pixels
    all_pts,            \* per valid instance: its pixel list
    total_pt_pairs,     \* per valid instance: the sampled pairs <<p, q>>
    hypothesis,         \* per valid instance: its hypotheses (total_Y)
    pruned_hypothesis,  \* hypotheses after prun_outliers (and after line 72)
    weights,            \* per valid instance: [den, w: sequence of [nan, num]]
    weighted_mean,      \* per valid instance: [nan, v, den]
    out,                \* the returned tensor: row id -> [nan, v, den]
    call_no,            \* number of the call being made (1 = first)
    seed0,              \* rng state at the start of the current call
    prev,               \* what the previous call produced (replay only)
    outliers_idx,       \* prun_outliers' flags: per instance, hypothesis, axis
    votes,              \* line 204: weights before the boost
    factor,             \* line 209: the boost, per hypothesis
    agg_xy              \* what the caller's agg_data[class_id]['xy'] holds

vars == <<uv_img, mask, HPARAM, rng, pc, valid_samples, all_pts, total_pt_pairs,
          hypothesis, pruned_hypothesis, weights, weighted_mean, out,
          call_no, seed0, prev, outliers_idx, votes, factor, agg_xy>>

\* ------------------------------------------------------------ float values
NaNVec == [nan |-> TRUE, v |-> <<0, 0>>]
Vec(x, y) == [nan |-> FALSE, v |-> <<x, y>>]

\* an output row: the vector v / den, or NaN
NaNRow == [nan |-> TRUE, v |-> <<0, 0>>, den |-> 1]
ZeroRow == [nan |-> FALSE, v |-> <<0, 0>>, den |-> 1]

Sign(x) == IF x > 0 THEN 1 ELSE IF x < 0 THEN -1 ELSE 0
Abs(x) == IF x < 0 THEN -x ELSE x

RECURSIVE SumSeq(_)
SumSeq(s) == IF s = <<>> THEN 0 ELSE Head(s) + SumSeq(Tail(s))

\* the batch size N = uv_img.shape[0]
N == Cardinality(DOMAIN uv_img)

\* ------------------------------------------------------------------ inputs
Pixels == (0 .. GridH - 1) \X (0 .. GridW - 1)

\* A unit-vector field built as the demo builds it, (center - coord) / norm
\* with 0/0 = NaN at the center itself; channel 0 is the row direction.  Off
\* the center's row and column the vector is the axis-aligned unit vector
\* toward the center's column (a unit vector, not the exact direction).
Toward(t) ==
    [p \in Pixels |->
        IF p = t THEN NaNVec
        ELSE IF p[2] # t[2] THEN Vec(0, Sign(t[2] - p[2]))
        ELSE Vec(Sign(t[1] - p[1]), 0)]

\* the same field with every direction reversed
Away(t) ==
    [p \in Pixels |->
        IF Toward(t)[p].nan THEN NaNVec
        ELSE Vec(-Toward(t)[p].v[1], -Toward(t)[p].v[2])]

\* every pixel carries the same unit vector d
Uniform(d) == [p \in Pixels |-> d]

FieldCenter == <<0, 1>>
Fields == {Toward(FieldCenter), Away(FieldCenter), Uniform(Vec(0, 1))}

Masks == { {}, {<<0, 0>>}, {<<0, 0>>, <<1, 1>>}, {<<0, 1>>, <<1, 1>>} }

\* PRUN_METHOD: "None" is Python's None; "std" is a value the dispatch of
\* prun_outliers does not know
PrunMethods == {"None", "z-score", "iqr", "std"}
Recognised == {"None", "z-score", "iqr"}
Configs ==
    {c \in [PRUN_METHOD : PrunMethods,
            PRUN_OUTLIER_DROP : BOOLEAN,
            PRUN_OUTLIER_REPLACEMENT_STYLE : {"mean", "median"}] :
        \* fields the call never reads stay at their config.py defaults
        /\ c.PRUN_METHOD \in {"None", "std"} => ~c.PRUN_OUTLIER_DROP
        /\ (c.PRUN_METHOD \in {"None", "std"} \/ c.PRUN_OUTLIER_DROP)
              => c.PRUN_OUTLIER_REPLACEMENT_STYLE = "median"}

\* states of the random generator: enough to reach every choice of
\* HV_NUM_OF_HYPOTHESES pairs among two points
RngPeriod == 2 ^ HV_NUM_OF_HYPOTHESES
RngStates == 0 .. RngPeriod - 1

\* ------------------------------------------------------ hypothesis generator
\* torch.stack(torch.where(mask[i]), dim=1): the true pixels in row-major order
RECURSIVE WhereFrom(_, _)
WhereFrom(m, k) ==
    IF k >= GridH * GridW THEN <<>>
    ELSE LET p == <<k \div GridW, k % GridW>>
         IN  (IF p \in m THEN <<p>> ELSE <<>>) \o WhereFrom(m, k + 1)

Where(m) == WhereFrom(m, 0)

\* Row j (0-based) of torch.multinomial(ones(K, n), 2, replacement=False) in
\* generator state s: two distinct indices below n, decoded from digit j of s
\* in base n * (n - 1)
MultinomialPair(s, n, j) ==
    LET base == n * (n - 1)
        d == (s \div (base ^ j)) % base
        first == d \div (n - 1)
        r == d % (n - 1)
    IN  <<first, IF r >= first THEN r + 1 ELSE r>>

\* the generator state after one call of torch.multinomial
RngNext(s) == (s + 1) % RngPeriod

\* pt_pairs of one instance: K pairs <<p, q>> of its pixels
PtPairs(pts, s) ==
    [j \in 1 .. HV_NUM_OF_HYPOTHESES |->
        LET idx == MultinomialPair(s, Len(pts), j - 1)
        IN  <<pts[idx[1] + 1], pts[idx[2] + 1]>>]

\* the loop of batchwise_generate_hypothesis over range(uv_img.shape[0]) from
\* instance i on; st carries valid_samples, all_pts, total_pt_pairs and the
\* generator state.  The loop stops where mask[i] does not exist.
RECURSIVE GenerateLoop(_, _, _)
GenerateLoop(i, msk, st) ==
    IF i >= N \/ i \notin DOMAIN msk THEN st
    ELSE LET pts == Where(msk[i])
         IN  IF Len(pts) < 2
             THEN GenerateLoop(i + 1, msk, st)
             ELSE GenerateLoop(i + 1, msk,
                     [valid_samples |-> Append(st.valid_samples, i),
                      all_pts |-> Append(st.all_pts, pts),
                      total_pt_pairs |->
                          Append(st.total_pt_pairs, PtPairs(pts, st.rng)),
                      rng |-> RngNext(st.rng)])

\* mutant: the scalar of the second point is used, X[:, 1, :]
PinverseX0_Second(a1, a2, b) ==
    LET det == a1[1] * a2[2] - a2[1] * a1[2]
        frob == a1[1] * a1[1] + a1[2] * a1[2] + a2[1] * a2[1] + a2[2] * a2[2]
    IN  IF det # 0 THEN <<Sign(det) * (a1[1] * b[2] - a1[2] * b[1]), Abs(det)>>
        ELSE IF frob # 0 THEN <<a2[1] * b[1] + a2[2] * b[2], frob>>
        ELSE <<0, 1>>

\* x[0] of pinverse(A) @ B as a fraction <<num, den>>, for A with columns
\* a1 = uv[p], a2 = -uv[q]: the inverse when A is regular, A^T / |A|_F^2 when
\* A has rank 1, 0 when A = 0
PinverseX0(a1, a2, b) ==
    LET det == a1[1] * a2[2] - a2[1] * a1[2]
        frob == a1[1] * a1[1] + a1[2] * a1[2] + a2[1] * a2[1] + a2[2] * a2[2]
    IN  IF det # 0 THEN <<Sign(det) * (a2[2] * b[1] - a2[1] * b[2]), Abs(det)>>
        ELSE IF frob # 0 THEN <<a1[1] * b[1] + a1[2] * b[2], frob>>
        ELSE <<0, 1>>

\* one row of batched_pinverse_solver: Y = X1 * uv_pt_pairs[0] + pt_pairs[0],
\* in units of 1/CoordScale; NaN when A holds a NaN
SolvePair(uv, pair) ==
    LET up == uv[pair[1]]
        uq == uv[pair[2]]
        p == pair[1]
        q == pair[2]
    IN  IF up.nan \/ uq.nan THEN NaNVec
        ELSE LET x == PinverseX0(up.v, <<-uq.v[1], -uq.v[2]>>,
                                 <<q[1] - p[1], q[2] - p[2]>>)
             IN  Vec(CoordScale * p[1] + (CoordScale * x[1] * up.v[1]) \div x[2],
                     CoordScale * p[2] + (CoordScale * x[1] * up.v[2]) \div x[2])

\* total_Y chunked per valid instance; instance valid_samples[k] reads its own
\* field uv_img[i]
TotalY(uv, vs, pairs) ==
    [k \in 1 .. Len(vs) |->
        [j \in 1 .. HV_NUM_OF_HYPOTHESES |-> SolvePair(uv[vs[k]], pairs[k][j])]]

\* some system handed to torch.pinverse holds a NaN
SomeNaNSystem(uv, vs, pairs) ==
    \E k \in 1 .. Len(vs) : \E j \in 1 .. HV_NUM_OF_HYPOTHESES :
        SolvePair(uv[vs[k]], pairs[k][j]).nan

\* sampling from a generator whose state the caller's seed does not fix
Generated_Unseeded == GenerateLoop(0, mask,
                [valid_samples |-> <<>>, all_pts |-> <<>>,
                 total_pt_pairs |-> <<>>,
                 rng |-> (rng + call_no - 1) % RngPeriod])

\* the generator's loop run on the batch, drawing from torch's default
\* generator (torch.multinomial is given no generator argument)
Generated == GenerateLoop(0, mask,
                [valid_samples |-> <<>>, all_pts |-> <<>>,
                 total_pt_pairs |-> <<>>, rng |-> rng])

\* ------------------------------------------------------------------- states
NoPrev == [call |-> 0, seed0 |-> 0, hypothesis |-> <<>>, out |-> <<>>]

Init ==
    /\ \E n \in 0 .. MaxN :
          /\ uv_img \in [0 .. n - 1 -> Fields]
          /\ mask \in [0 .. n - 1 -> Masks]
    /\ HPARAM \in Configs
    /\ rng \in RngStates
    /\ pc = "start"
    /\ valid_samples = <<>>
    /\ all_pts = <<>>
    /\ total_pt_pairs = <<>>
    /\ hypothesis = <<>>
    /\ pruned_hypothesis = <<>>
    /\ weights = <<>>
    /\ weighted_mean = <<>>
    /\ out = <<>>
    /\ call_no = 1
    /\ seed0 = rng
    /\ prev = NoPrev
    /\ outliers_idx = <<>>
    /\ votes = <<>>
    /\ factor = <<>>
    /\ agg_xy = uv_img

\* batchwise_generate_hypothesis returns (total_Y, all_pts, valid_samples), or
\* (None, None, None) when no instance is valid
GenerateHypothesis ==
    /\ pc = "start"
    /\ DOMAIN uv_img \subseteq DOMAIN mask
    /\ LET g == Generated
       IN  /\ valid_samples' = g.valid_samples
           /\ all_pts' = g.all_pts
           /\ total_pt_pairs' = g.total_pt_pairs
           /\ rng' = g.rng
           /\ hypothesis' = TotalY(uv_img, g.valid_samples, g.total_pt_pairs)
    /\ pc' = "generated"
    /\ UNCHANGED <<uv_img, mask, HPARAM, pruned_hypothesis, weights,
                   weighted_mean, out, call_no, seed0, prev, outliers_idx,
                   votes, factor, agg_xy>>

\* torch.pinverse on a batch holding a NaN matrix: the CPU kernel raises (the
\* SVD does not converge), the CUDA kernel returns NaN (GenerateHypothesis)
GenerateRaises ==
    /\ pc = "start"
    /\ DOMAIN uv_img \subseteq DOMAIN mask
    /\ LET g == Generated
       IN  /\ SomeNaNSystem(uv_img, g.valid_samples, g.total_pt_pairs)
           /\ valid_samples' = g.valid_samples
           /\ all_pts' = g.all_pts
           /\ total_pt_pairs' = g.total_pt_pairs
           /\ rng' = g.rng
    /\ pc' = "raised"
    /\ UNCHANGED <<uv_img, mask, HPARAM, hypothesis, pruned_hypothesis, weights,
                   weighted_mean, out, call_no, seed0, prev, outliers_idx,
                   votes, factor, agg_xy>>

\* ------------------------------------------------------------ outlier pruner
AnyNaN(y) == \E j \in 1 .. Len(y) : y[j].nan

\* the values of one coordinate axis (1 or 2) of an instance's hypotheses
Axis(y, a) == [j \in 1 .. Len(y) |-> y[j].v[a]]

\* torch.median of a non-empty sequence of numbers: the lower median
Median(vals) ==
    LET k == (Len(vals) + 1) \div 2
    IN  CHOOSE x \in {vals[j] : j \in 1 .. Len(vals)} :
            /\ Cardinality({j \in 1 .. Len(vals) : vals[j] < x}) < k
            /\ Cardinality({j \in 1 .. Len(vals) : vals[j] <= x}) >= k

LessEq(vals, x) == SelectSeq(vals, LAMBDA v : v <= x)
GreaterEq(vals, x) == SelectSeq(vals, LAMBDA v : v >= x)

\* batchwise_iqr_trimming for one instance and one axis: is value j outside
\* [q1 - m * iqr, q3 + m * iqr]
IqrAxisOutlier(vals, j) ==
    LET q2 == Median(vals)
        q1 == Median(LessEq(vals, q2))
        q3 == Median(GreaterEq(vals, q2))
        iqr == q3 - q1
    IN  \/ IQR_MULTIPLIER_DEN * vals[j]
              > IQR_MULTIPLIER_DEN * q3 + IQR_MULTIPLIER_NUM * iqr
        \/ IQR_MULTIPLIER_DEN * vals[j]
              < IQR_MULTIPLIER_DEN * q1 - IQR_MULTIPLIER_NUM * iqr

\* outliers_idx of batchwise_iqr_trimming for one instance.  With a NaN among
\* the hypotheses q2 is NaN, lower_data and higher_data are empty, their median
\* is NaN and no comparison with the cut-offs is true.
IqrOutliers(y) ==
    [j \in 1 .. Len(y) |->
        /\ ~AnyNaN(y)
        /\ IqrAxisOutlier(Axis(y, 1), j) \/ IqrAxisOutlier(Axis(y, 2), j)]

\* mutant: the z-score test on the absolute deviation
ZScoreAxisOutlier_TwoSided(vals, j) ==
    LET K == Len(vals)
        sum == SumSeq(vals)
        dev == [i \in 1 .. K |-> K * vals[i] - sum]
        ss == SumSeq([i \in 1 .. K |-> dev[i] * dev[i]])
    IN  /\ K > 1
        /\ (K - 1) * dev[j] * dev[j]
              > PRUN_ZSCORE_THRESHOLD * PRUN_ZSCORE_THRESHOLD * ss

\* batchwise_z_score_trimming for one instance and one axis: is
\* (value - mean) / std > threshold, with std the unbiased deviation.  With
\* dev = K * value - sum the test is dev > 0 and
\* (K - 1) * dev^2 > threshold^2 * sum of dev^2; std of one value is NaN.
ZScoreAxisOutlier(vals, j) ==
    LET K == Len(vals)
        sum == SumSeq(vals)
        dev == [i \in 1 .. K |-> K * vals[i] - sum]
        ss == SumSeq([i \in 1 .. K |-> dev[i] * dev[i]])
    IN  /\ K > 1
        /\ dev[j] > 0
        /\ (K - 1) * dev[j] * dev[j]
              > PRUN_ZSCORE_THRESHOLD * PRUN_ZSCORE_THRESHOLD * ss

\* outliers_idx of batchwise_z_score_trimming for one instance; mean and std
\* are NaN when a hypothesis is NaN
ZScoreOutliers(y) ==
    [j \in 1 .. Len(y) |->
        /\ ~AnyNaN(y)
        /\ ZScoreAxisOutlier(Axis(y, 1), j) \/ ZScoreAxisOutlier(Axis(y, 2), j)]

\* the flags of one hypothesis expanded to Y.shape: torch.unsqueeze(
\* logic_or_outliers, dim=-1).expand(Y.shape)
Expand(b) == <<b, b>>

\* mutant: the quartiles are taken over the hypotheses of the whole batch
OutliersIdx_WholeBatch(Y, hp) ==
    IF hp.PRUN_METHOD = "None" THEN <<>>
    ELSE LET all == IF Len(Y) = 2 THEN Y[1] \o Y[2] ELSE Y[1]
         IN  [k \in 1 .. Len(Y) |->
                [j \in 1 .. Len(Y[k]) |->
                    Expand(IF hp.PRUN_METHOD = "z-score"
                           THEN ZScoreOutliers(Y[k])[j]
                           ELSE IqrOutliers(all)[(k - 1) * Len(Y[1]) + j])]]

\* outliers_idx of prun_outliers on the batch: per instance and hypothesis the
\* flags of the two coordinates; the None branch returns before computing any
OutliersIdx(Y, hp) ==
    IF hp.PRUN_METHOD = "None" THEN <<>>
    ELSE [k \in 1 .. Len(Y) |->
            [j \in 1 .. Len(Y[k]) |->
                Expand(IF hp.PRUN_METHOD = "z-score"
                       THEN ZScoreOutliers(Y[k])[j] ELSE IqrOutliers(Y[k])[j])]]

\* mutant: the replacement is the mean whatever the configured style
ReplaceData_Mean(y, style) ==
    IF AnyNaN(y) THEN NaNVec
    ELSE Vec(SumSeq(Axis(y, 1)) \div Len(y), SumSeq(Axis(y, 2)) \div Len(y))

\* replace_data for one instance: torch.mean or torch.median over dim 1
ReplaceData(y, style) ==
    IF AnyNaN(y) THEN NaNVec
    ELSE IF style = "mean"
         THEN Vec(SumSeq(Axis(y, 1)) \div Len(y), SumSeq(Axis(y, 2)) \div Len(y))
         ELSE Vec(Median(Axis(y, 1)), Median(Axis(y, 2)))

\* mutant: a flagged hypothesis is replaced by the mean or median of the
\* other hypotheses
PrunInstance_OthersOnly(y, hp) ==
    IF hp.PRUN_METHOD = "None" THEN y
    ELSE LET flagged == IF hp.PRUN_METHOD = "z-score"
                        THEN ZScoreOutliers(y) ELSE IqrOutliers(y)
         IN  [j \in 1 .. Len(y) |->
                IF ~flagged[j] THEN y[j]
                ELSE IF hp.PRUN_OUTLIER_DROP THEN NaNVec
                ELSE ReplaceData([i \in 1 .. Len(y) - 1 |->
                                     IF i < j THEN y[i] ELSE y[i + 1]],
                                 hp.PRUN_OUTLIER_REPLACEMENT_STYLE)]

\* prun_outliers for one instance under a recognised method
PrunInstance(y, hp) ==
    IF hp.PRUN_METHOD = "None" THEN y
    ELSE LET flagged == IF hp.PRUN_METHOD = "z-score"
                        THEN ZScoreOutliers(y) ELSE IqrOutliers(y)
         IN  [j \in 1 .. Len(y) |->
                IF ~flagged[j] THEN y[j]
                ELSE IF hp.PRUN_OUTLIER_DROP THEN NaNVec
                ELSE ReplaceData(y, hp.PRUN_OUTLIER_REPLACEMENT_STYLE)]

\* prun_outliers on the batch: every statistic is taken over dim 1, the
\* hypotheses of one instance
PrunY(Y, hp) == [k \in 1 .. Len(Y) |-> PrunInstance(Y[k], hp)]

\* --------------------------------------------------------- consensus weighter
\* x.long() for a coordinate in units of 1/CoordScale: truncation toward zero
Long(x) == Sign(x) * (Abs(x) \div CoordScale)

\* number of pixels whose unit vector has a positive dot product with the
\* normalized vector from the pixel to hypothesis h.  A NaN on either side, or
\* h on the pixel (0/0), gives a NaN product, which is not > 0.
Votes(uvi, pts, h) ==
    IF h.nan THEN 0
    ELSE Cardinality({n \in 1 .. Len(pts) :
            /\ ~uvi[pts[n]].nan
            /\ (h.v[1] - CoordScale * pts[n][1]) * uvi[pts[n]].v[1]
                 + (h.v[2] - CoordScale * pts[n][2]) * uvi[pts[n]].v[2] > 0})

\* h_in_mask: number of mask pixels equal to the truncated hypothesis
HInMask(pts, h) ==
    Cardinality({n \in 1 .. Len(pts) :
        Long(h.v[1]) = pts[n][1] /\ Long(h.v[2]) = pts[n][2]})

\* factor * weights before normalization.  For a NaN hypothesis the vote count
\* is 0, so the product is 0 whatever NaN.long() is on the build.
BoostedVotes(uvi, pts, h) ==
    IF h.nan THEN 0
    ELSE (IF HInMask(pts, h) = 1 THEN HV_HYPOTHESIS_IN_MASK_MULTIPLIER ELSE 1)
            * Votes(uvi, pts, h)

\* mutant: the boosted vote counts are used as weights without normalization
InstanceWeights_Unnormalized(uvi, pts, h) ==
    [den |-> 1,
     w |-> [j \in 1 .. Len(h) |->
               [nan |-> FALSE, num |-> BoostedVotes(uvi, pts, h[j])]]]

\* weights / torch.sum(weights) for one instance, as numerators over the
\* common denominator den; 0/0 is NaN
InstanceWeights(uvi, pts, h) ==
    LET raw == [j \in 1 .. Len(h) |-> BoostedVotes(uvi, pts, h[j])]
        total == SumSeq(raw)
    IN  IF total = 0
        THEN [den |-> 1, w |-> [j \in 1 .. Len(h) |-> [nan |-> TRUE, num |-> 0]]]
        ELSE [den |-> total,
              w |-> [j \in 1 .. Len(h) |-> [nan |-> FALSE, num |-> raw[j]]]]

\* The field read for the instance at list position i (0-based) of
\* valid_samples: line 192 indexes uv_img with the loop counter i
WeighterField(uv, vs, i) == uv[i]

\* batchwise_calculate_hypothesis_weights
AllWeights(vs, pts, uv, h) ==
    [k \in 1 .. Len(vs) |->
        InstanceWeights(WeighterField(uv, vs, k - 1), pts[k], h[k])]

\* line 204 for the batch: torch.sum(b, dim=-1) of every instance
AllVotes(vs, pts, uv, h) ==
    [k \in 1 .. Len(vs) |->
        [j \in 1 .. Len(h[k]) |->
            Votes(WeighterField(uv, vs, k - 1), pts[k], h[k][j])]]

\* lines 207-213: the factor of hypothesis h; NaN.long() is 0 on some builds
Factor(pts, h, nan_long_is_zero) ==
    LET hits == IF ~h.nan THEN HInMask(pts, h)
                ELSE IF nan_long_is_zero
                     THEN Cardinality({n \in 1 .. Len(pts) : pts[n] = <<0, 0>>})
                     ELSE 0
    IN  IF hits = 1 THEN HV_HYPOTHESIS_IN_MASK_MULTIPLIER ELSE 1

AllFactors(pts, h, nan_long_is_zero) ==
    [k \in 1 .. Len(h) |->
        [j \in 1 .. Len(h[k]) |-> Factor(pts[k], h[k][j], nan_long_is_zero)]]

\* ---------------------------------------------------- weighted mean, assembly
\* line 72: pruned_hypothesis[is_nan] = 0
ZeroedHypothesis(h) ==
    [k \in 1 .. Len(h) |->
        [j \in 1 .. Len(h[k]) |-> IF h[k][j].nan THEN Vec(0, 0) ELSE h[k][j]]]

\* mutant: the weights of the NaN hypotheses are left as computed
ZeroedWeights_Kept(ws, h) == ws

\* line 73: weights[is_outlier] = 0
ZeroedWeights(ws, h) ==
    [k \in 1 .. Len(ws) |->
        [den |-> ws[k].den,
         w |-> [j \in 1 .. Len(ws[k].w) |->
                    IF h[k][j].nan THEN [nan |-> FALSE, num |-> 0]
                    ELSE ws[k].w[j]]]]

\* line 76 for one instance: sum over dim 1 of hypothesis * weight; a NaN
\* weight makes the sum NaN (NaN * 0 is NaN)
InstanceMean(h, wk) ==
    IF \E j \in 1 .. Len(h) : wk.w[j].nan THEN NaNRow
    ELSE [nan |-> FALSE,
          v |-> <<SumSeq([j \in 1 .. Len(h) |-> h[j].v[1] * wk.w[j].num]),
                  SumSeq([j \in 1 .. Len(h) |-> h[j].v[2] * wk.w[j].num])>>,
          den |-> wk.den * CoordScale]

WeightedMeans(h, ws) == [k \in 1 .. Len(h) |-> InstanceMean(h[k], ws[k])]

\* line 79: pixel_xy = weighted_mean[:, [1, 0]]
PixelXY(wm) ==
    [k \in 1 .. Len(wm) |->
        [nan |-> wm[k].nan, v |-> <<wm[k].v[2], wm[k].v[1]>>, den |-> wm[k].den]]

\* torch.zeros((n, 2))
Zeros(n) == [i \in 0 .. n - 1 |-> ZeroRow]

\* mutant: the centers are written to rows 0 .. len(valid_samples) - 1
FilledPixelXY_Compact(n, vs, pixel_xy) ==
    [i \in 0 .. n - 1 |-> IF i < Len(vs) THEN pixel_xy[i + 1] ELSE ZeroRow]

\* mutant: only the valid instances get a row
FilledPixelXY_ValidOnly(n, vs, pixel_xy) ==
    [i \in 0 .. Len(vs) - 1 |-> pixel_xy[i + 1]]

\* lines 82-83: zeros((N, 2)) with rows valid_samples set to pixel_xy
FilledPixelXY(n, vs, pixel_xy) ==
    [i \in 0 .. n - 1 |->
        IF \E k \in 1 .. Len(vs) : vs[k] = i
        THEN pixel_xy[CHOOSE k \in 1 .. Len(vs) : vs[k] = i]
        ELSE ZeroRow]

\* mutant: without a valid instance the call still enters the pruner
ShortCircuit_RunsPruner ==
    /\ pc = "generated"
    /\ valid_samples = <<>>
    /\ pc' = "pruned"
    /\ UNCHANGED <<uv_img, mask, HPARAM, rng, valid_samples, all_pts,
                   total_pt_pairs, hypothesis, pruned_hypothesis, weights,
                   weighted_mean, out, call_no, seed0, prev, outliers_idx,
                   votes, factor, agg_xy>>

\* line 56, else branch: no valid instance, return zeros((N, 2))
ShortCircuit ==
    /\ pc = "generated"
    /\ valid_samples = <<>>
    /\ out' = Zeros(N)
    /\ pc' = "done"
    /\ UNCHANGED <<uv_img, mask, HPARAM, rng, valid_samples, all_pts,
                   total_pt_pairs, hypothesis, pruned_hypothesis, weights,
                   weighted_mean, call_no, seed0, prev, outliers_idx,
                   votes, factor, agg_xy>>

\* line 59: prun_outliers under a recognised PRUN_METHOD
PrunOutliers ==
    /\ pc = "generated"
    /\ valid_samples # <<>>
    /\ HPARAM.PRUN_METHOD \in Recognised
    /\ outliers_idx' = OutliersIdx(hypothesis, HPARAM)
    /\ pruned_hypothesis' = PrunY(hypothesis, HPARAM)
    /\ pc' = "pruned"
    /\ UNCHANGED <<uv_img, mask, HPARAM, rng, valid_samples, all_pts,
                   total_pt_pairs, hypothesis, weights, weighted_mean, out,
                   call_no, seed0, prev, votes, factor, agg_xy>>

\* line 415: raise RuntimeError("Invalid HARAM.PRUN_METHOD")
PrunRaises ==
    /\ pc = "generated"
    /\ valid_samples # <<>>
    /\ HPARAM.PRUN_METHOD \notin Recognised
    /\ pc' = "raised"
    /\ UNCHANGED <<uv_img, mask, HPARAM, rng, valid_samples, all_pts,
                   total_pt_pairs, hypothesis, pruned_hypothesis, weights,
                   weighted_mean, out, call_no, seed0, prev, outliers_idx,
                   votes, factor, agg_xy>>

\* lines 62-67.  A NaN hypothesis has no defined .long(): the build gives the
\* smallest integer, which is no pixel, or 0.
CalculateWeights ==
    /\ pc = "pruned"
    /\ votes' = AllVotes(valid_samples, all_pts, uv_img, pruned_hypothesis)
    /\ \E nan_long_is_zero \in BOOLEAN :
          factor' = AllFactors(all_pts, pruned_hypothesis, nan_long_is_zero)
    /\ weights' = AllWeights(valid_samples, all_pts, uv_img, pruned_hypothesis)
    /\ pc' = "weighted"
    /\ UNCHANGED <<uv_img, mask, HPARAM, rng, valid_samples, all_pts,
                   total_pt_pairs, hypothesis, pruned_hypothesis,
                   weighted_mean, out, call_no, seed0, prev, outliers_idx,
                   agg_xy>>

\* lines 69-76
WeightedMean ==
    /\ pc = "weighted"
    /\ pruned_hypothesis' = ZeroedHypothesis(pruned_hypothesis)
    /\ weights' = ZeroedWeights(weights, pruned_hypothesis)
    /\ weighted_mean' = WeightedMeans(ZeroedHypothesis(pruned_hypothesis),
                                      ZeroedWeights(weights, pruned_hypothesis))
    /\ pc' = "averaged"
    /\ UNCHANGED <<uv_img, mask, HPARAM, rng, valid_samples, all_pts,
                   total_pt_pairs, hypothesis, out, call_no, seed0, prev,
                   outliers_idx,
                   votes, factor, agg_xy>>

\* lines 78-98
FillOutput ==
    /\ pc = "averaged"
    /\ out' = FilledPixelXY(N, valid_samples, PixelXY(weighted_mean))
    /\ pc' = "done"
    /\ UNCHANGED <<uv_img, mask, HPARAM, rng, valid_samples, all_pts,
                   total_pt_pairs, hypothesis, pruned_hypothesis, weights,
                   weighted_mean, call_no, seed0, prev, outliers_idx,
                   votes, factor, agg_xy>>

Next ==
    \/ GenerateHypothesis
    \/ GenerateRaises
    \/ ShortCircuit
    \/ PrunOutliers
    \/ PrunRaises
    \/ CalculateWeights
    \/ WeightedMean
    \/ FillOutput

Spec == Init /\ [][Next]_vars

\* batches of exactly MaxN + 1 instances
InitLarge ==
    /\ uv_img \in [0 .. MaxN -> Fields]
    /\ mask \in [0 .. MaxN -> Masks]
    /\ HPARAM \in Configs
    /\ rng \in RngStates
    /\ pc = "start"
    /\ valid_samples = <<>>
    /\ all_pts = <<>>
    /\ total_pt_pairs = <<>>
    /\ hypothesis = <<>>
    /\ pruned_hypothesis = <<>>
    /\ weights = <<>>
    /\ weighted_mean = <<>>
    /\ out = <<>>
    /\ call_no = 1
    /\ seed0 = rng
    /\ prev = NoPrev
    /\ outliers_idx = <<>>
    /\ votes = <<>>
    /\ factor = <<>>
    /\ agg_xy = uv_img

SpecLarge == InitLarge /\ [][Next]_vars

\* ------------------------------------------------------ two calls in a row
\* the configurations of a replayed call: config.py's defaults, and an
\* unrecognised PRUN_METHOD
ReplayConfigs ==
    {c \in Configs :
        /\ c.PRUN_METHOD \in {"iqr", "std"}
        /\ ~c.PRUN_OUTLIER_DROP
        /\ c.PRUN_OUTLIER_REPLACEMENT_STYLE = "median"}

InitReplay ==
    /\ \E n \in 0 .. MaxN :
          /\ uv_img \in [0 .. n - 1 -> Fields]
          /\ mask \in [0 .. n - 1 -> Masks]
    /\ HPARAM \in ReplayConfigs
    /\ rng \in RngStates
    /\ pc = "start"
    /\ valid_samples = <<>>
    /\ all_pts = <<>>
    /\ total_pt_pairs = <<>>
    /\ hypothesis = <<>>
    /\ pruned_hypothesis = <<>>
    /\ weights = <<>>
    /\ weighted_mean = <<>>
    /\ out = <<>>
    /\ call_no = 1
    /\ seed0 = rng
    /\ prev = NoPrev
    /\ outliers_idx = <<>>
    /\ votes = <<>>
    /\ factor = <<>>
    /\ agg_xy = uv_img

\* the caller runs the layer a second time on the same field, masks and
\* configuration; the default generator is left where the first call left it
CallAgain ==
    /\ pc = "done"
    /\ call_no = 1
    /\ prev' = [call |-> call_no, seed0 |-> seed0,
                hypothesis |-> hypothesis, out |-> out]
    /\ call_no' = 2
    /\ seed0' = rng
    /\ pc' = "start"
    /\ valid_samples' = <<>>
    /\ all_pts' = <<>>
    /\ total_pt_pairs' = <<>>
    /\ hypothesis' = <<>>
    /\ pruned_hypothesis' = <<>>
    /\ weights' = <<>>
    /\ weighted_mean' = <<>>
    /\ out' = <<>>
    /\ outliers_idx' = <<>>
    /\ votes' = <<>>
    /\ factor' = <<>>
    /\ UNCHANGED <<uv_img, mask, HPARAM, rng, agg_xy>>

\* before the second call the caller reseeds the default generator with the
\* seed of the first call (torch.manual_seed)
ManualSeed ==
    /\ pc = "start"
    /\ call_no = 2
    /\ rng # prev.seed0
    /\ rng' = prev.seed0
    /\ seed0' = prev.seed0
    /\ UNCHANGED <<uv_img, mask, HPARAM, pc, valid_samples, all_pts,
                   total_pt_pairs, hypothesis, pruned_hypothesis, weights,
                   weighted_mean, out, call_no, prev, outliers_idx,
                   votes, factor, agg_xy>>

NextReplay ==
    \/ Next
    \/ CallAgain
    \/ ManualSeed

SpecReplay == InitReplay /\ [][NextReplay]_vars

\* ------------------------------------------------------------------ claims
Ids == DOMAIN uv_img
ValidPos == 1 .. Len(valid_samples)
Degenerate(i) == Cardinality(mask[i]) < 2

\* two fractions are the same number
SameRow(a, b) ==
    /\ a.nan = b.nan
    /\ ~a.nan => /\ a.v[1] * b.den = b.v[1] * a.den
                 /\ a.v[2] * b.den = b.v[2] * a.den

\* the row is exactly (0, 0)
IsZeroRow(row) == ~row.nan /\ row.v = <<0, 0>>

\* two weight vectors of one instance are the same numbers
SameWeights(a, b) ==
    /\ Len(a.w) = Len(b.w)
    /\ \A j \in 1 .. Len(a.w) :
          /\ a.w[j].nan = b.w[j].nan
          /\ ~a.w[j].nan => a.w[j].num * b.den = b.w[j].num * a.den

\* sum of the numerators of instance k's weights: 0 exactly when its weights
\* before normalization sum to 0
WeightSum(k) == SumSeq([j \in 1 .. Len(weights[k].w) |-> weights[k].w[j].num])

\* C1: when the call returns, the row of every instance with fewer than 2 mask
\* pixels is exactly (0, 0), whatever the other instances are; and a call
\* fails only in a batch that holds a valid instance (a degenerate instance
\* raises nothing).
C1_DegenerateRowsZero ==
    /\ pc = "done" =>
          \A i \in Ids : Degenerate(i) => i \in DOMAIN out /\ IsZeroRow(out[i])
    /\ pc = "raised" => \E i \in Ids : ~Degenerate(i)

\* a degenerate instance shares a returned batch with a valid instance of
\* larger index whose row is not zero
C1_Witness ==
    /\ pc = "done"
    /\ \E i, j \in Ids :
          /\ i < j
          /\ Degenerate(i)
          /\ ~Degenerate(j)
          /\ ~IsZeroRow(out[j])

\* C2: every stage works on instance valid_samples[k] itself: the point list
\* and the hypotheses of position k come from the mask and the field of that
\* instance, its weights are computed with the field of that instance, and
\* its center is written to row valid_samples[k].
C2_IndexAligned ==
    \A k \in ValidPos :
        LET i == valid_samples[k]
        IN  /\ all_pts[k] = Where(mask[i])
            /\ pc \in {"generated", "pruned", "weighted", "averaged", "done"} =>
                  hypothesis[k] =
                      [j \in 1 .. HV_NUM_OF_HYPOTHESES |->
                          SolvePair(uv_img[i], total_pt_pairs[k][j])]
            /\ pc = "weighted" =>
                  SameWeights(weights[k],
                      InstanceWeights(uv_img[i], all_pts[k], pruned_hypothesis[k]))
            /\ pc = "done" => out[i] = PixelXY(weighted_mean)[k]

\* C3: the returned tensor has one row of 2 coordinates per input instance,
\* on the normal path and on the short-circuit path.
C3_BatchShape ==
    pc = "done" =>
        /\ DOMAIN out = 0 .. N - 1
        /\ \A i \in DOMAIN out : Len(out[i].v) = 2

\* a full batch returns on the normal path with some instance degenerate
C3_Witness ==
    /\ pc = "done"
    /\ N = MaxN
    /\ valid_samples # <<>>
    /\ Len(valid_samples) < N

\* C4: the weights that enter the weighted mean are non-negative numbers, not
\* NaN, and sum to 1, or to 0 when every hypothesis of the instance is pruned.
C4_WeightsNormalized ==
    pc = "averaged" =>
        \A k \in ValidPos :
            /\ \A j \in 1 .. Len(weights[k].w) :
                  ~weights[k].w[j].nan /\ weights[k].w[j].num >= 0
            /\ \/ WeightSum(k) = weights[k].den
               \/ WeightSum(k) = 0

\* C5: a valid instance whose weights sum to 0 before normalization gets the
\* row (0, 0), without NaN.
C5_ZeroTotalGivesZeroRow ==
    pc = "done" =>
        \A k \in ValidPos :
            WeightSum(k) = 0 => IsZeroRow(out[valid_samples[k]])

\* every hypothesis of instance k is the same pixel position (r, c)
OnePoint(k) ==
    \A j \in 1 .. Len(hypothesis[k]) :
        /\ ~hypothesis[k][j].nan
        /\ hypothesis[k][j] = hypothesis[k][1]
        /\ hypothesis[k][j].v[1] % CoordScale = 0
        /\ hypothesis[k][j].v[2] % CoordScale = 0

\* C6: the returned center is in (row, col) order: when every hypothesis of an
\* instance is the one pixel position (r, c) of the mask's grid and the
\* returned row is a number, the row is (r, c).
C6_RowColOrder ==
    pc = "done" =>
        \A k \in ValidPos :
            (OnePoint(k) /\ ~out[valid_samples[k]].nan) =>
                SameRow(out[valid_samples[k]],
                        [nan |-> FALSE, v |-> hypothesis[k][1].v,
                         den |-> CoordScale])

\* c lies inside the bounding box of mask m
InsideMask(c, m) ==
    /\ \E p \in m : p[1] <= c[1]
    /\ \E p \in m : p[1] >= c[1]
    /\ \E p \in m : p[2] <= c[2]
    /\ \E p \in m : p[2] >= c[2]

\* the unit vector at p points exactly toward c
PointsAt(u, p, c) ==
    /\ ~u.nan
    /\ p[1] = c[1] \/ p[2] = c[2]
    /\ u.v = <<Sign(c[1] - p[1]), Sign(c[2] - p[2])>>

\* the field of instance i points exactly toward c at every mask pixel but c
FieldPointsToward(i, c) ==
    /\ Cardinality(mask[i]) >= 2
    /\ InsideMask(c, mask[i])
    /\ \A p \in mask[i] \ {c} : PointsAt(uv_img[i][p], p, c)

\* the row is a number within one pixel of c
WithinOnePixel(row, c) ==
    /\ ~row.nan
    /\ (row.v[1] - c[1] * row.den) * (row.v[1] - c[1] * row.den)
         + (row.v[2] - c[2] * row.den) * (row.v[2] - c[2] * row.den)
         <= row.den * row.den

C8_SeedMatters ==
    /\ call_no = 2
    /\ pc = "done"
    /\ seed0 # prev.seed0
    /\ hypothesis # prev.hypothesis

\* every sampled pair of the instance at position k reads a NaN direction
AllPairsNaN(k) ==
    \A j \in 1 .. HV_NUM_OF_HYPOTHESES :
        \/ uv_img[valid_samples[k]][total_pt_pairs[k][j][1]].nan
        \/ uv_img[valid_samples[k]][total_pt_pairs[k][j][2]].nan

\* the weights of position k, computed with its own field, do not sum to 0
OwnTotalPositive(k) ==
    \E j \in 1 .. HV_NUM_OF_HYPOTHESES :
        BoostedVotes(uv_img[valid_samples[k]], all_pts[k], hypothesis[k][j]) > 0

\* C9: an instance whose sampled pairs are all NaN gets the row (0, 0) and
\* puts no NaN into the row of another instance: for another valid instance
\* whose own weights have a positive sum, in a batch where every field but the
\* NaN instance's is that instance's field, the returned row is a number.
C9_NaNIsolation ==
    pc = "done" =>
        \A kn \in ValidPos : \A ko \in ValidPos \ {kn} :
            ( /\ AllPairsNaN(kn)
              /\ OwnTotalPositive(ko)
              /\ \A i \in Ids \ {valid_samples[kn]} :
                    uv_img[i] = uv_img[valid_samples[ko]] )
            => /\ IsZeroRow(out[valid_samples[kn]])
               /\ ~out[valid_samples[ko]].nan

\* C10: under an unrecognised PRUN_METHOD the call raises before the
\* generator has run and never returns centers.
C10_InvalidConfigFailsFast ==
    HPARAM.PRUN_METHOD \notin Recognised =>
        /\ pc \in {"start", "raised"}
        /\ pc = "raised" => valid_samples = <<>> /\ total_pt_pairs = <<>>

\* scipy.special.comb(n, 2) and min, as the sequential generator caps the
\* number of pairs
Comb2(n) == (n * (n - 1)) \div 2
Min(a, b) == IF a <= b THEN a ELSE b

\* C11: once the generator has run, every valid instance with n mask pixels
\* has min(HV_NUM_OF_HYPOTHESES, n(n-1)/2) sampled pairs and as many
\* hypotheses.
C11_HypothesisCount ==
    pc \in {"generated", "pruned", "weighted", "averaged", "done"} =>
        \A k \in ValidPos :
            LET cap == Min(HV_NUM_OF_HYPOTHESES, Comb2(Len(all_pts[k])))
            IN  /\ Len(total_pt_pairs[k]) = cap
                /\ Len(hypothesis[k]) = cap

\* -------------------------------------------- masks with more than one pair
\* an empty mask and a mask of 3 pixels that holds the field's center
DenseMasks == { {}, {<<0, 0>>, <<0, 1>>, <<1, 1>>} }

\* a batch of at most one instance
InitDense ==
    /\ \E n \in 0 .. 1 :
          /\ uv_img \in [0 .. n - 1 -> Fields]
          /\ mask \in [0 .. n - 1 -> DenseMasks]
    /\ HPARAM \in Configs
    /\ rng \in RngStates
    /\ pc = "start"
    /\ valid_samples = <<>>
    /\ all_pts = <<>>
    /\ total_pt_pairs = <<>>
    /\ hypothesis = <<>>
    /\ pruned_hypothesis = <<>>
    /\ weights = <<>>
    /\ weighted_mean = <<>>
    /\ out = <<>>
    /\ call_no = 1
    /\ seed0 = rng
    /\ prev = NoPrev
    /\ outliers_idx = <<>>
    /\ votes = <<>>
    /\ factor = <<>>
    /\ agg_xy = uv_img

SpecDense == InitDense /\ [][Next]_vars

\* pair j of the pairs handed to the solver for position k reads a NaN
\* direction
PairNaN(k, j) ==
    \/ uv_img[valid_samples[k]][total_pt_pairs[k][j][1]].nan
    \/ uv_img[valid_samples[k]][total_pt_pairs[k][j][2]].nan

\* C12: when not every pair of an instance reads a NaN direction, no pair
\* handed to the solver for that instance reads one (the NaN pairs were
\* dropped), and every hypothesis of the instance is a number.
C12_NaNPairsDropped ==
    \A k \in ValidPos :
        (\E j \in 1 .. Len(total_pt_pairs[k]) : ~PairNaN(k, j)) =>
            /\ \A j \in 1 .. Len(total_pt_pairs[k]) : ~PairNaN(k, j)
            /\ pc \in {"generated", "pruned", "weighted", "averaged", "done"} =>
                  \A j \in 1 .. Len(hypothesis[k]) : ~hypothesis[k][j].nan

\* ------------------------------------- field and mask of different batch size
\* line 112 with i beyond the mask's first dimension: mask[i] raises
\* IndexError, after the instances before i were sampled
MaskIndexError ==
    /\ pc = "start"
    /\ ~(DOMAIN uv_img \subseteq DOMAIN mask)
    /\ LET g == Generated
       IN  /\ valid_samples' = g.valid_samples
           /\ all_pts' = g.all_pts
           /\ total_pt_pairs' = g.total_pt_pairs
           /\ rng' = g.rng
    /\ pc' = "raised"
    /\ UNCHANGED <<uv_img, mask, HPARAM, hypothesis, pruned_hypothesis, weights,
                   weighted_mean, out, call_no, seed0, prev, outliers_idx,
                   votes, factor, agg_xy>>

\* the field and the mask hold different numbers of instances
InitShape ==
    /\ \E nu \in 0 .. MaxN : \E nm \in (0 .. MaxN) \ {nu} :
          /\ uv_img \in [0 .. nu - 1 -> Fields]
          /\ mask \in [0 .. nm - 1 -> Masks]
    /\ HPARAM \in ReplayConfigs
    /\ rng \in RngStates
    /\ pc = "start"
    /\ valid_samples = <<>>
    /\ all_pts = <<>>
    /\ total_pt_pairs = <<>>
    /\ hypothesis = <<>>
    /\ pruned_hypothesis = <<>>
    /\ weights = <<>>
    /\ weighted_mean = <<>>
    /\ out = <<>>
    /\ call_no = 1
    /\ seed0 = rng
    /\ prev = NoPrev
    /\ outliers_idx = <<>>
    /\ votes = <<>>
    /\ factor = <<>>
    /\ agg_xy = uv_img

NextShape ==
    \/ Next
    \/ MaskIndexError

SpecShape == InitShape /\ [][NextShape]_vars

\* C13: a call whose field and mask disagree in instance count never gets
\* past its start except by a fatal error, and that error comes before any
\* instance is sampled.
C13_ShapePrecondition ==
    DOMAIN uv_img # DOMAIN mask =>
        /\ pc \in {"start", "raised"}
        /\ pc = "raised" => total_pt_pairs = <<>> /\ rng = seed0

\* the moves of a call from one position to the next: generator, then either
\* the return of zeros or pruner, weighter, weighted mean and output assembly;
\* a stage that raises ends the call
StageOrder ==
    { <<"start", "generated">>, <<"start", "raised">>,
      <<"generated", "done">>, <<"generated", "pruned">>,
      <<"generated", "raised">>, <<"pruned", "weighted">>,
      <<"weighted", "averaged">>, <<"averaged", "done">> }

\* C14: every step of a call moves along the fixed order of the stages, which
\* has no cycle, so no stage runs twice; right after the generator a call with
\* no valid instance returns zeros((N, 2)) and has run neither pruner nor
\* weighter, a call with a valid instance goes on to the pruner, and a call
\* that returns with a valid instance has run every stage.
C14_PipelineOrder ==
    [][ /\ <<pc, pc'>> \in StageOrder
        /\ (pc = "generated" /\ valid_samples = <<>>) =>
              /\ pc' = "done"
              /\ out' = Zeros(N)
              /\ pruned_hypothesis' = <<>>
              /\ weights' = <<>>
              /\ weighted_mean' = <<>>
        /\ (pc = "generated" /\ valid_samples # <<>>) => pc' \in {"pruned", "raised"}
        /\ (pc' = "done" /\ valid_samples' # <<>>) =>
              /\ pc = "averaged"
              /\ Len(pruned_hypothesis') = Len(valid_samples')
              /\ Len(weights') = Len(valid_samples')
              /\ Len(weighted_mean') = Len(valid_samples')
      ]_vars

\* a call with a valid instance has returned through every stage
C14_Witness ==
    /\ pc = "done"
    /\ valid_samples # <<>>
    /\ Len(weights) = Len(valid_samples)
    /\ Len(weighted_mean) = Len(valid_samples)

\* C15: under a recognised PRUN_METHOD no stage of a call aborts: the call
\* never ends in an error, so, the stages being in a fixed order without a
\* cycle, it runs through to its return.
C15_RunsToCompletion ==
    HPARAM.PRUN_METHOD \in Recognised => pc # "raised"

\* ------------------------------------------------------------------ forward
\* mutant: the NaN entries of the caller's field tensor are zeroed in place
ForwardStore_InPlace ==
    /\ pc = "done"
    /\ uv_img' = [i \in DOMAIN uv_img |->
                     [q \in Pixels |->
                        IF uv_img[i][q].nan THEN Vec(0, 0) ELSE uv_img[i][q]]]
    /\ agg_xy' = out
    /\ pc' = "stored"
    /\ UNCHANGED <<mask, HPARAM, rng, valid_samples, all_pts, total_pt_pairs,
                   hypothesis, pruned_hypothesis, weights, weighted_mean, out,
                   call_no, seed0, prev, outliers_idx, votes, factor>>

\* forward, line 40: agg_data[class_id]['xy'] = batchwise_hough_voting(uv_img,
\* mask).  The dict entry that held the field is bound to the returned
\* centers; the field tensor itself is not written.
ForwardStore ==
    /\ pc = "done"
    /\ agg_xy' = out
    /\ pc' = "stored"
    /\ UNCHANGED <<uv_img, mask, HPARAM, rng, valid_samples, all_pts,
                   total_pt_pairs, hypothesis, pruned_hypothesis, weights,
                   weighted_mean, out, call_no, seed0, prev, outliers_idx,
                   votes, factor>>

NextForward ==
    \/ Next
    \/ ForwardStore

SpecForward == Init /\ [][NextForward]_vars

\* C16: no step of a call, in batchwise_hough_voting or in forward, changes
\* an element of the field tensor or of the mask tensor.
C16_InputsNotMutated ==
    [][uv_img' = uv_img /\ mask' = mask]_vars

\* forward has stored the centers of a call whose in-place writes (lines 72,
\* 420) changed a hypothesis
C16_Witness ==
    /\ pc = "stored"
    /\ agg_xy = out
    /\ \E k \in ValidPos : pruned_hypothesis[k] # hypothesis[k]

\* C17: a call leaves the state that a later call reads as it found it (the
\* default generator is where it was when the call started), and a second
\* call on the same inputs returns what the first call returned, with the
\* same hypotheses, whether or not the caller reseeds in between.
C17_NoGlobalState ==
    /\ pc = "done" => rng = seed0
    /\ (call_no = 2 /\ pc = "done") =>
          /\ hypothesis = prev.hypothesis
          /\ out = prev.out

\* ------------------------------------------------ prun_outliers called alone
\* most hypotheses per instance of a hypothesis tensor handed to prun_outliers
PrunK == 4

\* the product 1 * 2 * ... * n
RECURSIVE Factorial(_)
Factorial(n) == IF n <= 1 THEN 1 ELSE n * Factorial(n - 1)

\* the unit of the coordinates of such a tensor: a multiple of every number of
\* hypotheses, so that torch.mean over the hypotheses is a whole number of
\* units
PrunUnit == Factorial(PrunK)

\* the hypotheses of such a tensor: a few points, one far from the others on
\* each axis, and NaN
PrunPoints == {Vec(0, 0), Vec(PrunUnit, 0), Vec(9 * PrunUnit, 0),
               Vec(0, 9 * PrunUnit), NaNVec}

\* the hypothesis sets of a second instance of a tensor of K hypotheses
OtherSets(K) == { [j \in 1 .. K |-> Vec(0, 0)],
                  [j \in 1 .. K |-> Vec(j * PrunUnit, j * PrunUnit)] }

\* prun_outliers is about to be called on a tensor Y of one or two instances
\* of K hypotheses each
InitPrun ==
    /\ \E K \in 1 .. PrunK : \E y \in [1 .. K -> PrunPoints] :
          \/ hypothesis = <<y>>
          \/ \E z \in OtherSets(K) : hypothesis = <<y, z>>
    /\ HPARAM \in Configs
    /\ pc = "prun_call"
    /\ uv_img = <<>>
    /\ mask = <<>>
    /\ rng = 0
    /\ valid_samples = <<>>
    /\ all_pts = <<>>
    /\ total_pt_pairs = <<>>
    /\ pruned_hypothesis = <<>>
    /\ weights = <<>>
    /\ weighted_mean = <<>>
    /\ out = <<>>
    /\ call_no = 1
    /\ seed0 = 0
    /\ prev = NoPrev
    /\ outliers_idx = <<>>
    /\ votes = <<>>
    /\ factor = <<>>
    /\ agg_xy = <<>>

\* prun_outliers(Y) under a recognised PRUN_METHOD
CallPrunOutliers ==
    /\ pc = "prun_call"
    /\ HPARAM.PRUN_METHOD \in Recognised
    /\ outliers_idx' = OutliersIdx(hypothesis, HPARAM)
    /\ pruned_hypothesis' = PrunY(hypothesis, HPARAM)
    /\ pc' = "prun_done"
    /\ UNCHANGED <<uv_img, mask, HPARAM, rng, valid_samples, all_pts,
                   total_pt_pairs, hypothesis, weights, weighted_mean, out,
                   call_no, seed0, prev, votes, factor, agg_xy>>

\* prun_outliers(Y), line 415: raise RuntimeError
CallPrunRaises ==
    /\ pc = "prun_call"
    /\ HPARAM.PRUN_METHOD \notin Recognised
    /\ pc' = "raised"
    /\ UNCHANGED <<uv_img, mask, HPARAM, rng, valid_samples, all_pts,
                   total_pt_pairs, hypothesis, pruned_hypothesis, weights,
                   weighted_mean, out, call_no, seed0, prev, outliers_idx,
                   votes, factor, agg_xy>>

NextPrun ==
    \/ CallPrunOutliers
    \/ CallPrunRaises

SpecPrun == InitPrun /\ [][NextPrun]_vars

\* ------------------------------------------------ claims about the pruner
\* the values in ascending order
RECURSIVE Sorted(_)
Sorted(s) ==
    IF s = <<>> THEN <<>>
    ELSE LET m == CHOOSE i \in 1 .. Len(s) : \A j \in 1 .. Len(s) : s[i] <= s[j]
         IN  <<s[m]>> \o Sorted([k \in 1 .. Len(s) - 1 |->
                                    IF k < m THEN s[k] ELSE s[k + 1]])

\* the median as torch.median returns it: the middle value, the lower of the
\* two middle values of an even count
MiddleValue(s) == Sorted(s)[(Len(s) + 1) \div 2]

\* the hypothesis set without hypothesis o
Others(y, o) == [j \in 1 .. Len(y) - 1 |-> IF j < o THEN y[j] ELSE y[j + 1]]

\* how far apart on an axis two hypotheses of a cluster may be, and how far
\* from every cluster member on some axis an outlier is at least, in PrunUnit
ClusterSpread == 1
FarGap == 8

\* y is a cluster of at least two close hypotheses plus the far outlier y[o]
ClusterPlusOutlier(y, o) ==
    /\ Len(y) >= 3
    /\ ~AnyNaN(y)
    /\ \A i, j \in (1 .. Len(y)) \ {o} : \A a \in 1 .. 2 :
          Abs(y[i].v[a] - y[j].v[a]) <= ClusterSpread * PrunUnit
    /\ \E a \in 1 .. 2 : \A i \in (1 .. Len(y)) \ {o} :
          Abs(y[o].v[a] - y[i].v[a]) >= FarGap * PrunUnit

\* IQR pruning with the replace policy and median style flags exactly y[o]
\* and overwrites it with the per-axis median of the other hypotheses
OnlyOutlierReplaced(k, o) ==
    LET y == hypothesis[k]
        cluster == Others(y, o)
    IN  /\ \A j \in 1 .. Len(y) : outliers_idx[k][j] = Expand(j = o)
        /\ pruned_hypothesis[k][o] = Vec(MiddleValue(Axis(cluster, 1)),
                                         MiddleValue(Axis(cluster, 2)))
        /\ \A j \in (1 .. Len(y)) \ {o} : pruned_hypothesis[k][j] = y[j]

IqrReplaceMedian ==
    /\ pc = "prun_done"
    /\ HPARAM.PRUN_METHOD = "iqr"
    /\ ~HPARAM.PRUN_OUTLIER_DROP
    /\ HPARAM.PRUN_OUTLIER_REPLACEMENT_STYLE = "median"

\* C18 as stated: for every hypothesis set made of a cluster of close
\* hypotheses plus one far outlier, IQR pruning flags the outlier and no
\* cluster member, and replace/median overwrites the outlier with the
\* per-axis median of the cluster
C18_IqrReplaceScenario ==
    IqrReplaceMedian =>
        \A k \in 1 .. Len(hypothesis) : \A o \in 1 .. Len(hypothesis[k]) :
            ClusterPlusOutlier(hypothesis[k], o) => OnlyOutlierReplaced(k, o)

\* C18 amended: the same for every hypothesis set made of a cluster of
\* identical hypotheses plus one far outlier
C18_IqrReplaceIdenticalCluster ==
    IqrReplaceMedian =>
        \A k \in 1 .. Len(hypothesis) : \A o \in 1 .. Len(hypothesis[k]) :
            (/\ ClusterPlusOutlier(hypothesis[k], o)
             /\ \A i, j \in (1 .. Len(hypothesis[k])) \ {o} :
                   hypothesis[k][i] = hypothesis[k][j])
                => OnlyOutlierReplaced(k, o)

\* an identical cluster and its far outlier have been pruned and the outlier
\* now holds the cluster's value
C18_Witness ==
    /\ IqrReplaceMedian
    /\ \E k \in 1 .. Len(hypothesis) : \E o \in 1 .. Len(hypothesis[k]) :
          /\ ClusterPlusOutlier(hypothesis[k], o)
          /\ \A i, j \in (1 .. Len(hypothesis[k])) \ {o} :
                hypothesis[k][i] = hypothesis[k][j]
          /\ pruned_hypothesis[k][o] # hypothesis[k][o]
          /\ pruned_hypothesis[k][o] = hypothesis[k][IF o = 1 THEN 2 ELSE 1]

\* the rule of C19 for hypothesis j of the hypothesis set y on axis a; no
\* comparison with a NaN quartile is true
IqrRuleOnAxis(y, j, a) ==
    LET vals == Axis(y, a)
        Q2 == MiddleValue(vals)
        Q1 == MiddleValue(SelectSeq(vals, LAMBDA v : v <= Q2))
        Q3 == MiddleValue(SelectSeq(vals, LAMBDA v : v >= Q2))
        IQR == Q3 - Q1
    IN  /\ ~AnyNaN(y)
        /\ \/ IQR_MULTIPLIER_DEN * vals[j]
                  < IQR_MULTIPLIER_DEN * Q1 - IQR_MULTIPLIER_NUM * IQR
           \/ IQR_MULTIPLIER_DEN * vals[j]
                  > IQR_MULTIPLIER_DEN * Q3 + IQR_MULTIPLIER_NUM * IQR

\* C19: under iqr, hypothesis j of instance k is flagged if and only if on at
\* least one axis its coordinate is below Q1 - m * IQR or above Q3 + m * IQR,
\* the quartiles being those of instance k's hypotheses alone, and its two
\* coordinates carry the same flag
C19_IqrRule ==
    (pc = "prun_done" /\ HPARAM.PRUN_METHOD = "iqr") =>
        \A k \in 1 .. Len(hypothesis) : \A j \in 1 .. Len(hypothesis[k]) :
            /\ outliers_idx[k][j][1] =
                  (\E a \in 1 .. 2 : IqrRuleOnAxis(hypothesis[k], j, a))
            /\ outliers_idx[k][j][2] = outliers_idx[k][j][1]

\* iqr has flagged a hypothesis that is outside the cut-offs on one axis only
\* and left another one alone, in a tensor of two instances
C19_Witness ==
    /\ pc = "prun_done"
    /\ HPARAM.PRUN_METHOD = "iqr"
    /\ Len(hypothesis) = 2
    /\ \E j \in 1 .. Len(hypothesis[1]) :
          /\ outliers_idx[1][j] = <<TRUE, TRUE>>
          /\ ~IqrRuleOnAxis(hypothesis[1], j, 1)
    /\ \E j \in 1 .. Len(hypothesis[1]) : outliers_idx[1][j] = <<FALSE, FALSE>>

\* the rule of C20 for hypothesis j of the hypothesis set y on axis a:
\* (value - mean) / std > threshold with mean = S / n and
\* std^2 = (n * sum of squares - S^2) / (n * (n - 1)); the std of one value
\* and every statistic over a NaN is NaN
ZScoreRuleOnAxis(y, j, a) ==
    LET vals == Axis(y, a)
        n == Len(vals)
        S == SumSeq(vals)
        SS == SumSeq([i \in 1 .. n |-> vals[i] * vals[i]])
    IN  /\ ~AnyNaN(y)
        /\ n > 1
        /\ n * vals[j] > S
        /\ (n * vals[j] - S) * (n * vals[j] - S) * (n - 1)
              > PRUN_ZSCORE_THRESHOLD * PRUN_ZSCORE_THRESHOLD
                   * n * (n * SS - S * S)

\* C20: under z-score, hypothesis j of instance k is flagged if and only if
\* (value - mean) / std > PRUN_ZSCORE_THRESHOLD on at least one axis, mean and
\* std being those of instance k's hypotheses alone, and its two coordinates
\* carry the same flag
C20_ZScoreRule ==
    (pc = "prun_done" /\ HPARAM.PRUN_METHOD = "z-score") =>
        \A k \in 1 .. Len(hypothesis) : \A j \in 1 .. Len(hypothesis[k]) :
            /\ outliers_idx[k][j][1] =
                  (\E a \in 1 .. 2 : ZScoreRuleOnAxis(hypothesis[k], j, a))
            /\ outliers_idx[k][j][2] = outliers_idx[k][j][1]

\* z-score has flagged a hypothesis above the mean and left alone one that is
\* as far below the mean on the same axis
C20_Witness ==
    /\ pc = "prun_done"
    /\ HPARAM.PRUN_METHOD = "z-score"
    /\ \E k \in 1 .. Len(hypothesis) : \E i, j \in 1 .. Len(hypothesis[k]) :
          \E a \in 1 .. 2 :
              LET vals == Axis(hypothesis[k], a)
              IN  /\ ~AnyNaN(hypothesis[k])
                  /\ outliers_idx[k][j] = <<TRUE, TRUE>>
                  /\ outliers_idx[k][i] = <<FALSE, FALSE>>
                  /\ Len(vals) * vals[j] - SumSeq(vals)
                        = SumSeq(vals) - Len(vals) * vals[i]

\* ------------------------------------------------ claims about the policies
\* hypothesis j of the instance at position k was flagged by the pruner
Flagged(k, j) == outliers_idx[k][j][1]

DropPolicy == HPARAM.PRUN_METHOD \in {"z-score", "iqr"} /\ HPARAM.PRUN_OUTLIER_DROP

\* the weighted mean of the instance at position k taken over its unflagged
\* hypotheses only
MeanOfUnflagged(k) ==
    LET keep == {j \in 1 .. Len(pruned_hypothesis[k]) : ~Flagged(k, j)}
        part(a) == [j \in 1 .. Len(pruned_hypothesis[k]) |->
                       IF j \in keep
                       THEN pruned_hypothesis[k][j].v[a] * weights[k].w[j].num
                       ELSE 0]
    IN  IF \E j \in keep : weights[k].w[j].nan THEN NaNRow
        ELSE [nan |-> FALSE, v |-> <<SumSeq(part(1)), SumSeq(part(2))>>,
              den |-> weights[k].den * CoordScale]

\* C21: under the drop policy the pruner leaves every flagged hypothesis NaN
\* in both coordinates and every unflagged hypothesis as it was; in the
\* weighted mean every flagged hypothesis has weight exactly 0 and the center
\* is the one the unflagged hypotheses give alone
C21_DropPolicy ==
    DropPolicy =>
        \A k \in ValidPos :
            /\ pc \in {"pruned", "weighted"} =>
                  \A j \in 1 .. Len(hypothesis[k]) :
                      IF Flagged(k, j) THEN pruned_hypothesis[k][j].nan
                      ELSE pruned_hypothesis[k][j] = hypothesis[k][j]
            /\ pc \in {"averaged", "done"} =>
                  /\ \A j \in 1 .. Len(hypothesis[k]) :
                        Flagged(k, j) => /\ ~weights[k].w[j].nan
                                         /\ weights[k].w[j].num = 0
                  /\ weighted_mean[k] = MeanOfUnflagged(k)

\* a call under the drop policy returned a center that is a number although
\* one hypothesis of the instance was flagged
C21_Witness ==
    /\ DropPolicy
    /\ pc = "done"
    /\ \E k \in ValidPos :
          /\ \E j \in 1 .. Len(hypothesis[k]) : Flagged(k, j)
          /\ ~weighted_mean[k].nan
          /\ weighted_mean[k].v # <<0, 0>>

ReplacePolicy ==
    HPARAM.PRUN_METHOD \in {"z-score", "iqr"} /\ ~HPARAM.PRUN_OUTLIER_DROP

\* C22: under the replace policy the pruner returns as many hypotheses in the
\* same order; every flagged hypothesis is, per axis, the mean (style mean) or
\* the median (style median) of all hypotheses of its instance as they were
\* before pruning, and every unflagged hypothesis is as it was
C22_ReplacePolicy ==
    (ReplacePolicy /\ pc \in {"prun_done", "pruned", "weighted"}) =>
        /\ Len(pruned_hypothesis) = Len(hypothesis)
        /\ \A k \in 1 .. Len(hypothesis) :
              LET y == hypothesis[k]
              IN  /\ Len(pruned_hypothesis[k]) = Len(y)
                  /\ \A j \in 1 .. Len(y) :
                        IF ~Flagged(k, j) THEN pruned_hypothesis[k][j] = y[j]
                        ELSE /\ ~pruned_hypothesis[k][j].nan
                             /\ \A a \in 1 .. 2 :
                                   IF HPARAM.PRUN_OUTLIER_REPLACEMENT_STYLE = "mean"
                                   THEN Len(y) * pruned_hypothesis[k][j].v[a]
                                           = SumSeq(Axis(y, a))
                                   ELSE pruned_hypothesis[k][j].v[a]
                                           = MiddleValue(Axis(y, a))

\* prun_outliers has replaced a flagged hypothesis by a mean that is the
\* value of no hypothesis of its instance, and left another one as it was
C22_Witness ==
    /\ ReplacePolicy
    /\ pc = "prun_done"
    /\ HPARAM.PRUN_OUTLIER_REPLACEMENT_STYLE = "mean"
    /\ \E k \in 1 .. Len(hypothesis) : \E i, j \in 1 .. Len(hypothesis[k]) :
          /\ Flagged(k, j)
          /\ ~Flagged(k, i)
          /\ \A n \in 1 .. Len(hypothesis[k]) :
                pruned_hypothesis[k][j] # hypothesis[k][n]

\* ------------------------------------------------ claims about the weighter
\* the number of mask pixels p of instance i whose unit vector has a strictly
\* positive dot product with the normalized vector from p to h; the sign of
\* the product is that of the product with the vector from p to h, and there
\* is no normalized vector from p to p or to a NaN
PositivePixels(i, h) ==
    IF h.nan THEN 0
    ELSE Cardinality({p \in mask[i] :
            /\ ~uv_img[i][p].nan
            /\ <<CoordScale * p[1], CoordScale * p[2]>> # h.v
            /\ (h.v[1] - CoordScale * p[1]) * uv_img[i][p].v[1]
                 + (h.v[2] - CoordScale * p[2]) * uv_img[i][p].v[2] > 0})

\* C23: the raw vote count of every hypothesis of every valid instance is the
\* number of that instance's mask pixels whose own unit vector has a strictly
\* positive dot product with the normalized vector from the pixel to the
\* hypothesis
C23_VoteCount ==
    pc = "weighted" =>
        \A k \in ValidPos : \A j \in 1 .. Len(pruned_hypothesis[k]) :
            votes[k][j] = PositivePixels(valid_samples[k], pruned_hypothesis[k][j])

\* hypothesis h is exactly the (row, column) of a mask pixel of instance i
OnMaskPixel(i, h) ==
    /\ ~h.nan
    /\ \E p \in mask[i] : h.v = <<CoordScale * p[1], CoordScale * p[2]>>

\* C24: the factor of a hypothesis is HV_HYPOTHESIS_IN_MASK_MULTIPLIER if and
\* only if the hypothesis is exactly a pixel of its instance's mask, and 1 for
\* every other hypothesis
C24_InMaskBoost ==
    pc = "weighted" =>
        \A k \in ValidPos : \A j \in 1 .. Len(pruned_hypothesis[k]) :
            factor[k][j] =
                IF OnMaskPixel(valid_samples[k], pruned_hypothesis[k][j])
                THEN HV_HYPOTHESIS_IN_MASK_MULTIPLIER ELSE 1

\* ------------------------------------------------ claims about the solver
Cross(a, b) == a[1] * b[2] - a[2] * b[1]

\* the vector from pixel p to the point h, in units of 1 / CoordScale
FromPixel(p, h) == <<h[1] - CoordScale * p[1], h[2] - CoordScale * p[2]>>

\* directions along an axis, and along a diagonal (not normalized: the solver
\* never relies on the norm)
AxisDirs == {Vec(0, 1), Vec(0, -1), Vec(1, 0), Vec(-1, 0)}
DiagDirs == {Vec(1, 1), Vec(1, -1), Vec(-1, 1), Vec(-1, -1)}

\* a batch of one instance whose mask is empty or holds pixel (0, 0) and one
\* other pixel q, with any axis direction or NaN at (0, 0) and any direction
\* at q
InitSolve ==
    /\ \E q \in Pixels \ {<<0, 0>>} :
       \E d0 \in AxisDirs \cup {NaNVec} : \E dq \in AxisDirs \cup DiagDirs :
          /\ uv_img = [i \in {0} |-> [p \in Pixels |->
                                        IF p = <<0, 0>> THEN d0
                                        ELSE IF p = q THEN dq ELSE Vec(0, 1)]]
          /\ \/ mask = [i \in {0} |-> {<<0, 0>>, q}]
             \/ mask = [i \in {0} |-> {}]
    /\ HPARAM \in ReplayConfigs
    /\ rng \in RngStates
    /\ pc = "start"
    /\ valid_samples = <<>>
    /\ all_pts = <<>>
    /\ total_pt_pairs = <<>>
    /\ hypothesis = <<>>
    /\ pruned_hypothesis = <<>>
    /\ weights = <<>>
    /\ weighted_mean = <<>>
    /\ out = <<>>
    /\ call_no = 1
    /\ seed0 = rng
    /\ prev = NoPrev
    /\ outliers_idx = <<>>
    /\ votes = <<>>
    /\ factor = <<>>
    /\ agg_xy = uv_img

SpecSolve == InitSolve /\ [][Next]_vars

\* C25: the hypothesis of every sampled pair (p, q) with directions that are
\* not parallel lies on the line through p with direction U[p] and on the line
\* through q with direction U[q], which meet in one point only; with parallel
\* directions it still lies on the line through p
C25_RayIntersection ==
    pc \in {"generated", "pruned", "weighted", "averaged", "done"} =>
        \A k \in ValidPos : \A j \in 1 .. Len(hypothesis[k]) :
            LET pair == total_pt_pairs[k][j]
                up == uv_img[valid_samples[k]][pair[1]]
                uq == uv_img[valid_samples[k]][pair[2]]
                h == hypothesis[k][j]
            IN  (~up.nan /\ ~uq.nan) =>
                    /\ ~h.nan
                    /\ Cross(FromPixel(pair[1], h.v), up.v) = 0
                    /\ Cross(up.v, uq.v) # 0 =>
                          Cross(FromPixel(pair[2], h.v), uq.v) = 0

\* a pair with directions that are not parallel has its hypothesis away from
\* both of its pixels
C25_Witness ==
    /\ pc = "generated"
    /\ \E k \in ValidPos : \E j \in 1 .. Len(hypothesis[k]) :
          LET pair == total_pt_pairs[k][j]
              up == uv_img[valid_samples[k]][pair[1]]
              uq == uv_img[valid_samples[k]][pair[2]]
              h == hypothesis[k][j]
          IN  /\ ~up.nan /\ ~uq.nan /\ ~h.nan
              /\ Cross(up.v, uq.v) # 0
              /\ FromPixel(pair[1], h.v) # <<0, 0>>
              /\ FromPixel(pair[2], h.v) # <<0, 0>>

\* ------------------------------------------------ claims about the center
\* the hypotheses of the instance at position k that the pruner did not turn
\* into NaN and that were not NaN before
Surviving(k) ==
    {j \in 1 .. Len(hypothesis[k]) :
        /\ ~hypothesis[k][j].nan
        /\ ~(DropPolicy /\ Flagged(k, j))}

\* the total of the boosted vote counts of the instance at position k
TotalVotes(k) ==
    SumSeq([j \in 1 .. Len(votes[k]) |-> factor[k][j] * votes[k][j]])

\* C26: the returned center of every valid instance with a surviving
\* hypothesis and a positive vote total is a number, and its coordinate
\* 3 - a (line 79 swaps the two) lies between the smallest and the largest
\* coordinate a of the instance's surviving hypotheses
C26_ConvexCombination ==
    pc = "done" =>
        \A k \in ValidPos :
            (Surviving(k) # {} /\ TotalVotes(k) > 0) =>
                LET row == out[valid_samples[k]]
                    h == pruned_hypothesis[k]
                IN  /\ ~row.nan
                    /\ \A a \in 1 .. 2 : \E lo, hi \in Surviving(k) :
                          /\ h[lo].v[a] * row.den <= CoordScale * row.v[3 - a]
                          /\ CoordScale * row.v[3 - a] <= h[hi].v[a] * row.den

\* a returned center lies strictly between two surviving hypotheses of its
\* instance on some axis
C26_Witness ==
    /\ pc = "done"
    /\ \E k \in ValidPos :
          LET row == out[valid_samples[k]]
              h == pruned_hypothesis[k]
          IN  /\ TotalVotes(k) > 0
              /\ ~row.nan
              /\ \E a \in 1 .. 2 : \E lo, hi \in Surviving(k) :
                    /\ h[lo].v[a] * row.den < CoordScale * row.v[3 - a]
                    /\ CoordScale * row.v[3 - a] < h[hi].v[a] * row.den

====
